---- MODULE Spec2Model ----
(***************************************************************************)
(* Device cache (internal/storage/device_cache.go) and its Persister.      *)
(*                                                                         *)
(* A device is the pair of the two fields the cache indexes by, Phone and  *)
(* Plate; two *model.Device pointers are identified when these agree.      *)
(* Plate 0 stands for the empty plate "" of an unregistered terminal.      *)
(***************************************************************************)
EXTENDS Integers, Sequences, FiniteSets, TLC

\* bounds of SpecCache: the cache operations alone, on a constructed cache
NumPhones == 2
NumPlates == 2
NumThreads == 2
\* bounds of Spec: the cache together with its Persister and the disk; the
\* devices put there are unregistered terminals (the empty plate)
PersistPhones == 1
PersistThreads == 1
\* the width of the window of status-word bits above bit 8 that is enumerated
GeoHighBits == 3
\* the longest attachment payload put into a report, and the longest raw
\* attachment area handed to Msg0200.Decode
MaxPayloadLen == 256
MaxTlvLen == 4
\* the most records put into a WiFi or cell-tower attachment
MaxRecords == 2

maxRetryAttempts == 3
\* the scale of coordinates and of speed
LocationAccuracy == 1000000
SpeedAccuracy == 10

Phones == 1..(IF NumPhones > PersistPhones THEN NumPhones ELSE PersistPhones)
Plates == 0..(NumPlates - 1)
Threads == 1..(IF NumThreads > PersistThreads THEN NumThreads ELSE PersistThreads)

\* the goroutine started by `go p.autoSave()`
Auto == 0
\* the goroutine that runs GetDeviceCache's once.Do body
Main == -1
Procs == Threads \cup {Auto, Main}

Device == [Phone : Phones, Plate : Plates]
\* the devices, keys and threads each specification draws its calls from
CacheDevices == [Phone : 1..NumPhones, Plate : 0..(NumPlates - 1)]
CachePhones == 1..NumPhones
CachePlates == 0..(NumPlates - 1)
CacheThreads == 1..NumThreads
PDevices == [Phone : 1..PersistPhones, Plate : {0}]
PPhones == 1..PersistPhones
PPlates == {0}
PThreads == 1..PersistThreads
\* the nil *model.Device
NilDevice == [Phone |-> 0, Plate |-> 0]

\* a Go map: a function whose domain is the set of keys present
EmptyMap == [k \in {} |-> NilDevice]
MapSet(m, k, d) == [x \in (DOMAIN m) \cup {k} |-> IF x = k THEN d ELSE m[x]]
MapDelete(m, k) == [x \in (DOMAIN m) \ {k} |-> m[x]]
\* json.Unmarshal into an existing map keeps the entries the document lacks
MapMerge(m, doc) == [x \in (DOMAIN m) \cup (DOMAIN doc) |->
                        IF x \in DOMAIN doc THEN doc[x] ELSE m[x]]

\* contents of a path on disk
Absent == [kind |-> "absent"]
Partial == [kind |-> "partial"]

VARIABLES
    CacheByPlate,   \* DeviceCache.CacheByPlate
    CacheByPhone,   \* DeviceCache.CacheByPhone
    mutex,          \* DeviceCache.mutex: 0 when free, else the holder
    updated,        \* DeviceCache.updated
    mu,             \* Persister.mu: held by the autosave loop during a tick
    lastSaveErr,    \* Persister.lastSaveErr: TRUE when a non-nil error
    filePath,       \* content of p.filePath on disk
    tmpFile,        \* content of p.filePath + ".tmp" on disk
    pc,             \* position of every goroutine
    local,          \* locals of the call a goroutine is in
    cin,            \* the codec: the argument of the call being made
    cout            \* the codec: what the call has produced so far

vars == <<CacheByPlate, CacheByPhone, mutex, updated, mu, lastSaveErr,
          filePath, tmpFile, pc, local, cin, cout>>

\* the state of the cache and its Persister, and the state of a codec call
storageVars == <<CacheByPlate, CacheByPhone, mutex, updated, mu, lastSaveErr,
                 filePath, tmpFile, pc, local>>
codecVars == <<cin, cout>>
\* no codec call is being made
NoCall == [op |-> "none"]

cacheVars == <<CacheByPlate, CacheByPhone>>
diskVars == <<filePath, tmpFile>>

\* locals: d, the device argument or the device found; key, the key
\* argument; byPlate, which index a delete or get looks in; i, the retry
\* loop counter; err, whether err is non-nil; tries and fails count the
\* calls of atomicSave/atomicLoad made and failed by the current retry loop
NoLocal == [d |-> NilDevice, key |-> 0, byPlate |-> FALSE,
            i |-> 0, err |-> FALSE, tries |-> 0, fails |-> 0]

\* json.MarshalIndent of the DeviceCache: the exported fields only
MarshalIndent == [kind |-> "full",
                  CacheByPlate |-> CacheByPlate,
                  CacheByPhone |-> CacheByPhone]

GetDeviceByPlate(carPlate) ==
    IF carPlate \in DOMAIN CacheByPlate
    THEN [d |-> CacheByPlate[carPlate], err |-> FALSE]
    ELSE [d |-> NilDevice, err |-> TRUE]

GetDeviceByPhone(phone) ==
    IF phone \in DOMAIN CacheByPhone
    THEN [d |-> CacheByPhone[phone], err |-> FALSE]
    ELSE [d |-> NilDevice, err |-> TRUE]

IsUpdated == updated

ListDevice == {CacheByPhone[k] : k \in DOMAIN CacheByPhone}

Init ==
    /\ CacheByPlate = EmptyMap
    /\ CacheByPhone = EmptyMap
    /\ mutex = 0
    /\ updated = FALSE
    /\ mu = FALSE
    /\ lastSaveErr = FALSE
    /\ filePath = Absent
    /\ tmpFile = Absent
    /\ pc = [p \in Procs |-> IF p = Main THEN "NewPersister"
                             ELSE IF p = Auto THEN "off" ELSE "idle"]
    /\ local = [p \in Procs |-> NoLocal]
    /\ cin = NoCall
    /\ cout = NoCall

\* GetDeviceCache returns to its callers once the once.Do body has run
Running == pc[Main] = "done"

Goto(p, label) == pc' = [pc EXCEPT ![p] = label]
Return(p) == /\ pc' = [pc EXCEPT ![p] = "idle"]
             /\ local' = [local EXCEPT ![p] = NoLocal]

----
\* DeviceCache.CacheDevice

CacheDevice_Lock(t, d) ==
    /\ Running /\ pc[t] = "idle" /\ mutex = 0
    /\ mutex' = t
    /\ Goto(t, "cacheDevice_plate")
    /\ local' = [local EXCEPT ![t].d = d]
    /\ UNCHANGED <<cacheVars, updated, mu, lastSaveErr, diskVars>>
    /\ UNCHANGED codecVars

cacheDevice_plate(t) ==
    /\ pc[t] = "cacheDevice_plate"
    /\ CacheByPlate' = MapSet(CacheByPlate, local[t].d.Plate, local[t].d)
    /\ Goto(t, "cacheDevice_phone")
    /\ UNCHANGED <<CacheByPhone, mutex, updated, mu, lastSaveErr, diskVars, local>>
    /\ UNCHANGED codecVars

cacheDevice_phone(t) ==
    /\ pc[t] = "cacheDevice_phone"
    /\ CacheByPhone' = MapSet(CacheByPhone, local[t].d.Phone, local[t].d)
    /\ Goto(t, "CacheDevice_defer")
    /\ UNCHANGED <<CacheByPlate, mutex, updated, mu, lastSaveErr, diskVars, local>>
    /\ UNCHANGED codecVars

\* the two deferred calls, in LIFO order: updated = true, then Unlock
CacheDevice_defer(t) ==
    /\ pc[t] = "CacheDevice_defer"
    /\ updated' = TRUE
    /\ mutex' = 0
    /\ Return(t)
    /\ UNCHANGED <<cacheVars, mu, lastSaveErr, diskVars>>
    /\ UNCHANGED codecVars

----
\* DeviceCache.DelDeviceByCarPlate / DelDeviceByPhone

DelDevice_Lock(t, byPlate, key) ==
    /\ Running /\ pc[t] = "idle" /\ mutex = 0
    /\ mutex' = t
    /\ Goto(t, "delDevice_lookup")
    /\ local' = [local EXCEPT ![t].key = key, ![t].byPlate = byPlate]
    /\ UNCHANGED <<cacheVars, updated, mu, lastSaveErr, diskVars>>
    /\ UNCHANGED codecVars

DelDeviceByCarPlate_Lock(t, carPlate) == DelDevice_Lock(t, TRUE, carPlate)
DelDeviceByPhone_Lock(t, phone) == DelDevice_Lock(t, FALSE, phone)

\* delDevice looking the key up in the phone index whichever key was given
delDevice_lookup_phoneOnly(t) ==
    /\ pc[t] = "delDevice_lookup"
    /\ LET m == CacheByPhone
           ok == local[t].key \in DOMAIN m
       IN IF ok
          THEN /\ local' = [local EXCEPT ![t].d = m[local[t].key]]
               /\ Goto(t, "delDevice_plate")
          ELSE /\ Goto(t, "delDevice_skip")
               /\ UNCHANGED local
    /\ UNCHANGED <<cacheVars, mutex, updated, mu, lastSaveErr, diskVars>>
    /\ UNCHANGED codecVars

delDevice_lookup(t) ==
    /\ pc[t] = "delDevice_lookup"
    /\ LET m == IF local[t].byPlate THEN CacheByPlate ELSE CacheByPhone
           ok == local[t].key \in DOMAIN m
       IN IF ok
          THEN /\ local' = [local EXCEPT ![t].d = m[local[t].key]]
               /\ Goto(t, "delDevice_plate")
          ELSE /\ Goto(t, "delDevice_skip")
               /\ UNCHANGED local
    /\ UNCHANGED <<cacheVars, mutex, updated, mu, lastSaveErr, diskVars>>
    /\ UNCHANGED codecVars

\* delDevice removing the plate entry under the key it was called with
delDevice_plate_byKey(t) ==
    /\ pc[t] = "delDevice_plate"
    /\ CacheByPlate' = MapDelete(CacheByPlate, local[t].key)
    /\ Goto(t, "delDevice_phone")
    /\ UNCHANGED <<CacheByPhone, mutex, updated, mu, lastSaveErr, diskVars, local>>
    /\ UNCHANGED codecVars

delDevice_plate(t) ==
    /\ pc[t] = "delDevice_plate"
    /\ CacheByPlate' = MapDelete(CacheByPlate, local[t].d.Plate)
    /\ Goto(t, "delDevice_phone")
    /\ UNCHANGED <<CacheByPhone, mutex, updated, mu, lastSaveErr, diskVars, local>>
    /\ UNCHANGED codecVars

delDevice_phone(t) ==
    /\ pc[t] = "delDevice_phone"
    /\ CacheByPhone' = MapDelete(CacheByPhone, local[t].d.Phone)
    /\ Goto(t, "delDevice_done")
    /\ UNCHANGED <<CacheByPlate, mutex, updated, mu, lastSaveErr, diskVars, local>>
    /\ UNCHANGED codecVars

DelDevice_Unlock(t) ==
    /\ pc[t] \in {"delDevice_skip", "delDevice_done"}
    /\ mutex' = 0
    /\ Return(t)
    /\ UNCHANGED <<cacheVars, updated, mu, lastSaveErr, diskVars>>
    /\ UNCHANGED codecVars

----
\* DeviceCache.GetDeviceByPlate / GetDeviceByPhone

GetDevice_Lock(t, byPlate, key) ==
    /\ Running /\ pc[t] = "idle" /\ mutex = 0
    /\ mutex' = t
    /\ Goto(t, "GetDevice")
    /\ local' = [local EXCEPT ![t].key = key, ![t].byPlate = byPlate]
    /\ UNCHANGED <<cacheVars, updated, mu, lastSaveErr, diskVars>>
    /\ UNCHANGED codecVars

GetDeviceByPlate_Lock(t, carPlate) == GetDevice_Lock(t, TRUE, carPlate)
GetDeviceByPhone_Lock(t, phone) == GetDevice_Lock(t, FALSE, phone)

GetDevice_Return(t) ==
    /\ pc[t] = "GetDevice"
    /\ mutex' = 0
    /\ Return(t)
    /\ UNCHANGED <<cacheVars, updated, mu, lastSaveErr, diskVars>>
    /\ UNCHANGED codecVars

\* DeviceCache.ListDevice: maps.Values over CacheByPhone, no lock taken
ListDevice_Begin(t) ==
    /\ Running /\ pc[t] = "idle"
    /\ Goto(t, "ListDevice")
    /\ UNCHANGED <<cacheVars, mutex, updated, mu, lastSaveErr, diskVars, local>>
    /\ UNCHANGED codecVars

ListDevice_Return(t) ==
    /\ pc[t] = "ListDevice"
    /\ Return(t)
    /\ UNCHANGED <<cacheVars, mutex, updated, mu, lastSaveErr, diskVars>>
    /\ UNCHANGED codecVars

----
\* Persister.saveWithRetry / atomicSave, run by Save (a thread) or autoSave

\* the retry loop testing i <= maxRetryAttempts
saveWithRetry_next_offByOne(i) ==
    IF i + 1 <= maxRetryAttempts THEN "atomicSave_write" ELSE "saveWithRetry_return"

\* the loop of saveWithRetry after a failed attempt with loop counter i:
\* time.Sleep(retryDelay), i++, and the test i < maxRetryAttempts
saveWithRetry_next(i) ==
    IF i + 1 < maxRetryAttempts THEN "atomicSave_write" ELSE "saveWithRetry_return"

\* json.MarshalIndent and os.WriteFile of the temporary file
atomicSave_write(p) ==
    /\ pc[p] = "atomicSave_write"
    /\ \/ /\ tmpFile' = MarshalIndent
          /\ Goto(p, "atomicSave_rename")
          /\ local' = [local EXCEPT ![p].tries = @ + 1]
       \/ \* os.WriteFile fails: nothing written, or a truncated document left
          /\ tmpFile' \in {tmpFile, Partial}
          /\ Goto(p, saveWithRetry_next(local[p].i))
          /\ local' = [local EXCEPT ![p].tries = @ + 1, ![p].fails = @ + 1,
                                    ![p].i = @ + 1, ![p].err = TRUE]
    /\ UNCHANGED <<cacheVars, mutex, updated, mu, lastSaveErr, filePath>>
    /\ UNCHANGED codecVars

\* os.Rename(tmpFile, p.filePath)
atomicSave_rename(p) ==
    /\ pc[p] = "atomicSave_rename"
    /\ \/ /\ tmpFile # Absent
          /\ filePath' = tmpFile
          /\ tmpFile' = Absent
          /\ Goto(p, "saveWithRetry_return")
          /\ local' = [local EXCEPT ![p].err = FALSE]
       \/ /\ UNCHANGED diskVars
          /\ Goto(p, saveWithRetry_next(local[p].i))
          /\ local' = [local EXCEPT ![p].fails = @ + 1, ![p].i = @ + 1,
                                    ![p].err = TRUE]
    /\ UNCHANGED <<cacheVars, mutex, updated, mu, lastSaveErr>>
    /\ UNCHANGED codecVars

\* Persister.Save
Save_Lock(t) ==
    /\ Running /\ pc[t] = "idle" /\ mutex = 0
    /\ mutex' = t
    /\ Goto(t, "atomicSave_write")
    /\ UNCHANGED <<cacheVars, updated, mu, lastSaveErr, diskVars, local>>
    /\ UNCHANGED codecVars

\* a variant of Save_Return that unlocks only when the save has succeeded
Save_Return_keepLock(t) ==
    /\ t \in Threads /\ pc[t] = "saveWithRetry_return"
    /\ mutex' = IF local[t].err THEN mutex ELSE 0
    /\ Return(t)
    /\ UNCHANGED <<cacheVars, updated, mu, lastSaveErr, diskVars>>
    /\ UNCHANGED codecVars

Save_Return(t) ==
    /\ t \in Threads /\ pc[t] = "saveWithRetry_return"
    /\ mutex' = 0
    /\ Return(t)
    /\ UNCHANGED <<cacheVars, updated, mu, lastSaveErr, diskVars>>
    /\ UNCHANGED codecVars

----
\* Persister.autoSave

autoSave_tick ==
    /\ pc[Auto] = "ticker" /\ ~mu
    /\ mu' = TRUE
    /\ Goto(Auto, "IsUpdated")
    /\ UNCHANGED <<cacheVars, mutex, updated, lastSaveErr, diskVars, local>>
    /\ UNCHANGED codecVars

autoSave_IsUpdated ==
    /\ pc[Auto] = "IsUpdated"
    /\ IF IsUpdated
       THEN /\ Goto(Auto, "atomicSave_write")
            /\ UNCHANGED mu
       ELSE /\ Goto(Auto, "ticker")
            /\ mu' = FALSE
    /\ UNCHANGED <<cacheVars, mutex, updated, lastSaveErr, diskVars, local>>
    /\ UNCHANGED codecVars

\* the autosave loop leaving on a failed save
autoSave_Return_exit ==
    /\ pc[Auto] = "saveWithRetry_return"
    /\ lastSaveErr' = local[Auto].err
    /\ mu' = FALSE
    /\ Goto(Auto, IF local[Auto].err THEN "off" ELSE "ticker")
    /\ local' = [local EXCEPT ![Auto] = NoLocal]
    /\ UNCHANGED <<cacheVars, mutex, updated, diskVars>>
    /\ UNCHANGED codecVars

autoSave_Return ==
    /\ pc[Auto] = "saveWithRetry_return"
    /\ lastSaveErr' = local[Auto].err
    /\ mu' = FALSE
    /\ Goto(Auto, "ticker")
    /\ local' = [local EXCEPT ![Auto] = NoLocal]
    /\ UNCHANGED <<cacheVars, mutex, updated, diskVars>>
    /\ UNCHANGED codecVars

----
\* Persister.loadWithRetry / atomicLoad, run by Load

Load_Lock(p) ==
    /\ \/ p = Main /\ pc[p] = "NewPersister"
       \/ p \in Threads /\ Running /\ pc[p] = "idle"
    /\ mutex = 0
    /\ mutex' = p
    /\ Goto(p, "atomicLoad")
    /\ UNCHANGED <<cacheVars, updated, mu, lastSaveErr, diskVars, local>>
    /\ UNCHANGED codecVars

loadWithRetry_next(i) ==
    IF i + 1 < maxRetryAttempts THEN "atomicLoad" ELSE "loadWithRetry_return"

\* a variant of atomicLoad_notExist that reports the missing file as an error
atomicLoad_notExist_asError(p) ==
    /\ pc[p] = "atomicLoad"
    /\ filePath = Absent
    /\ Goto(p, loadWithRetry_next(local[p].i))
    /\ local' = [local EXCEPT ![p].tries = @ + 1, ![p].fails = @ + 1,
                              ![p].i = @ + 1, ![p].err = TRUE]
    /\ UNCHANGED <<cacheVars, mutex, updated, mu, lastSaveErr, diskVars>>
    /\ UNCHANGED codecVars

\* os.IsNotExist(err): a first start, nothing to load
atomicLoad_notExist(p) ==
    /\ pc[p] = "atomicLoad"
    /\ filePath = Absent
    /\ Goto(p, "loadWithRetry_return")
    /\ local' = [local EXCEPT ![p].tries = @ + 1, ![p].err = FALSE]
    /\ UNCHANGED <<cacheVars, mutex, updated, mu, lastSaveErr, diskVars>>
    /\ UNCHANGED codecVars

\* json.Unmarshal succeeds: the entries of the file are merged into the maps
atomicLoad_Unmarshal(p) ==
    /\ pc[p] = "atomicLoad"
    /\ filePath.kind = "full"
    /\ CacheByPlate' = MapMerge(CacheByPlate, filePath.CacheByPlate)
    /\ CacheByPhone' = MapMerge(CacheByPhone, filePath.CacheByPhone)
    /\ Goto(p, "loadWithRetry_return")
    /\ local' = [local EXCEPT ![p].tries = @ + 1, ![p].err = FALSE]
    /\ UNCHANGED <<mutex, updated, mu, lastSaveErr, diskVars>>
    /\ UNCHANGED codecVars

\* os.ReadFile fails, or json.Unmarshal rejects a truncated document
atomicLoad_fail(p) ==
    /\ pc[p] = "atomicLoad"
    /\ filePath # Absent
    /\ Goto(p, loadWithRetry_next(local[p].i))
    /\ local' = [local EXCEPT ![p].tries = @ + 1, ![p].fails = @ + 1,
                              ![p].i = @ + 1, ![p].err = TRUE]
    /\ UNCHANGED <<cacheVars, mutex, updated, mu, lastSaveErr, diskVars>>
    /\ UNCHANGED codecVars

atomicLoad(p) ==
    \/ atomicLoad_notExist(p)
    \/ atomicLoad_Unmarshal(p)
    \/ atomicLoad_fail(p)

Load_Return(t) ==
    /\ t \in Threads /\ pc[t] = "loadWithRetry_return"
    /\ mutex' = 0
    /\ Return(t)
    /\ UNCHANGED <<cacheVars, updated, mu, lastSaveErr, diskVars>>
    /\ UNCHANGED codecVars

\* a variant of NewPersister_Return that gives up on a failed initial load
\* and leaves the autosave loop unstarted
NewPersister_Return_fatalLoad ==
    /\ pc[Main] = "loadWithRetry_return"
    /\ mutex' = 0
    /\ pc' = [pc EXCEPT ![Main] = "done",
                        ![Auto] = IF local[Main].err THEN "off" ELSE "ticker"]
    /\ local' = [local EXCEPT ![Main] = NoLocal]
    /\ UNCHANGED <<cacheVars, updated, mu, lastSaveErr, diskVars>>
    /\ UNCHANGED codecVars

\* NewPersister after p.Load(obj): the error is logged, `go p.autoSave()`
NewPersister_Return ==
    /\ pc[Main] = "loadWithRetry_return"
    /\ mutex' = 0
    /\ pc' = [pc EXCEPT ![Main] = "done", ![Auto] = "ticker"]
    /\ local' = [local EXCEPT ![Main] = NoLocal]
    /\ UNCHANGED <<cacheVars, updated, mu, lastSaveErr, diskVars>>
    /\ UNCHANGED codecVars

----
\* The process is killed and started again: the disk is all that survives
Restart ==
    /\ CacheByPlate' = EmptyMap
    /\ CacheByPhone' = EmptyMap
    /\ mutex' = 0
    /\ updated' = FALSE
    /\ mu' = FALSE
    /\ lastSaveErr' = FALSE
    /\ pc' = [p \in Procs |-> IF p = Main THEN "NewPersister"
                              ELSE IF p = Auto THEN "off" ELSE "idle"]
    /\ local' = [p \in Procs |-> NoLocal]
    /\ UNCHANGED diskVars
    /\ UNCHANGED codecVars

Next ==
    \/ \E t \in PThreads, d \in PDevices : CacheDevice_Lock(t, d)
    \/ \E t \in PThreads : cacheDevice_plate(t)
    \/ \E t \in PThreads : cacheDevice_phone(t)
    \/ \E t \in PThreads : CacheDevice_defer(t)
    \/ \E t \in PThreads, k \in PPlates : DelDeviceByCarPlate_Lock(t, k)
    \/ \E t \in PThreads, k \in PPhones : DelDeviceByPhone_Lock(t, k)
    \/ \E t \in PThreads : delDevice_lookup(t)
    \/ \E t \in PThreads : delDevice_plate(t)
    \/ \E t \in PThreads : delDevice_phone(t)
    \/ \E t \in PThreads : DelDevice_Unlock(t)
    \/ \E p \in PThreads \cup {Auto} : atomicSave_write(p)
    \/ \E p \in PThreads \cup {Auto} : atomicSave_rename(p)
    \/ \E t \in PThreads : Save_Lock(t)
    \/ \E t \in PThreads : Save_Return(t)
    \/ autoSave_tick
    \/ autoSave_IsUpdated
    \/ autoSave_Return
    \/ \E p \in PThreads \cup {Main} : Load_Lock(p)
    \/ \E p \in PThreads \cup {Main} : atomicLoad(p)
    \/ \E t \in PThreads : Load_Return(t)
    \/ NewPersister_Return
    \/ Restart

Spec == Init /\ [][Next]_vars

\* The cache as GetDeviceCache hands it out when no snapshot was on disk,
\* and the cache operations alone
InitCache ==
    /\ CacheByPlate = EmptyMap
    /\ CacheByPhone = EmptyMap
    /\ mutex = 0
    /\ updated = FALSE
    /\ mu = FALSE
    /\ lastSaveErr = FALSE
    /\ filePath = Absent
    /\ tmpFile = Absent
    /\ pc = [p \in Procs |-> IF p = Main THEN "done"
                             ELSE IF p = Auto THEN "ticker" ELSE "idle"]
    /\ local = [p \in Procs |-> NoLocal]
    /\ cin = NoCall
    /\ cout = NoCall

NextCache ==
    \/ \E t \in CacheThreads, d \in CacheDevices : CacheDevice_Lock(t, d)
    \/ \E t \in CacheThreads : cacheDevice_plate(t)
    \/ \E t \in CacheThreads : cacheDevice_phone(t)
    \/ \E t \in CacheThreads : CacheDevice_defer(t)
    \/ \E t \in CacheThreads, k \in CachePlates : DelDeviceByCarPlate_Lock(t, k)
    \/ \E t \in CacheThreads, k \in CachePhones : DelDeviceByPhone_Lock(t, k)
    \/ \E t \in CacheThreads : delDevice_lookup(t)
    \/ \E t \in CacheThreads : delDevice_plate(t)
    \/ \E t \in CacheThreads : delDevice_phone(t)
    \/ \E t \in CacheThreads : DelDevice_Unlock(t)
    \/ \E t \in CacheThreads, k \in CachePlates : GetDeviceByPlate_Lock(t, k)
    \/ \E t \in CacheThreads, k \in CachePhones : GetDeviceByPhone_Lock(t, k)
    \/ \E t \in CacheThreads : GetDevice_Return(t)
    \/ \E t \in CacheThreads : ListDevice_Begin(t)
    \/ \E t \in CacheThreads : ListDevice_Return(t)

SpecCache == InitCache /\ [][NextCache]_vars

----
\* The cache with its Persister when the disk works in the end: no thread
\* calls Save or Load, a snapshot that exists can be read, the autosave
\* goroutine keeps running (the ticker keeps firing), and a write and a
\* rename that are tried again and again succeed at some point.
NextLive ==
    \/ \E t \in PThreads, d \in PDevices : CacheDevice_Lock(t, d)
    \/ \E t \in PThreads : cacheDevice_plate(t)
    \/ \E t \in PThreads : cacheDevice_phone(t)
    \/ \E t \in PThreads : CacheDevice_defer(t)
    \/ \E t \in PThreads, k \in PPlates : DelDeviceByCarPlate_Lock(t, k)
    \/ \E t \in PThreads, k \in PPhones : DelDeviceByPhone_Lock(t, k)
    \/ \E t \in PThreads : delDevice_lookup(t)
    \/ \E t \in PThreads : delDevice_plate(t)
    \/ \E t \in PThreads : delDevice_phone(t)
    \/ \E t \in PThreads : DelDevice_Unlock(t)
    \/ atomicSave_write(Auto)
    \/ atomicSave_rename(Auto)
    \/ autoSave_tick
    \/ autoSave_IsUpdated
    \/ autoSave_Return
    \/ Load_Lock(Main)
    \/ atomicLoad_notExist(Main)
    \/ atomicLoad_Unmarshal(Main)
    \/ NewPersister_Return
    \/ Restart

autoSaveFairness ==
    /\ WF_vars(autoSave_tick)
    /\ WF_vars(autoSave_IsUpdated)
    /\ WF_vars(autoSave_Return)
    /\ WF_vars(atomicSave_write(Auto))
    /\ WF_vars(atomicSave_rename(Auto))
    /\ SF_vars(atomicSave_write(Auto) /\ pc'[Auto] = "atomicSave_rename")
    /\ SF_vars(atomicSave_rename(Auto) /\ filePath' = tmpFile)

SpecLive == Init /\ [][NextLive]_vars /\ autoSaveFairness

----
\* The cache with its Persister and the lookups, called from several
\* goroutines under a fair scheduler: a goroutine that is inside a call, or
\* inside NewPersister, takes its next step at some point. When a call is
\* made is up to the caller.
\* All calls name the same device: the lock is taken and released in the
\* same way whatever the device.
OneDevice == [Phone |-> 1, Plate |-> 0]
NextFair ==
    \/ \E t \in CacheThreads : CacheDevice_Lock(t, OneDevice)
    \/ \E t \in CacheThreads : cacheDevice_plate(t)
    \/ \E t \in CacheThreads : cacheDevice_phone(t)
    \/ \E t \in CacheThreads : CacheDevice_defer(t)
    \/ \E t \in CacheThreads : DelDeviceByCarPlate_Lock(t, OneDevice.Plate)
    \/ \E t \in CacheThreads : DelDeviceByPhone_Lock(t, OneDevice.Phone)
    \/ \E t \in CacheThreads : delDevice_lookup(t)
    \/ \E t \in CacheThreads : delDevice_plate(t)
    \/ \E t \in CacheThreads : delDevice_phone(t)
    \/ \E t \in CacheThreads : DelDevice_Unlock(t)
    \/ \E t \in CacheThreads : GetDeviceByPlate_Lock(t, OneDevice.Plate)
    \/ \E t \in CacheThreads : GetDeviceByPhone_Lock(t, OneDevice.Phone)
    \/ \E t \in CacheThreads : GetDevice_Return(t)
    \/ \E p \in CacheThreads \cup {Auto} : atomicSave_write(p)
    \/ \E p \in CacheThreads \cup {Auto} : atomicSave_rename(p)
    \/ \E t \in CacheThreads : Save_Lock(t)
    \/ \E t \in CacheThreads : Save_Return(t)
    \/ autoSave_tick
    \/ autoSave_IsUpdated
    \/ autoSave_Return
    \/ \E p \in CacheThreads \cup {Main} : Load_Lock(p)
    \/ \E p \in CacheThreads \cup {Main} : atomicLoad(p)
    \/ \E t \in CacheThreads : Load_Return(t)
    \/ NewPersister_Return

Step(p) ==
    \/ cacheDevice_plate(p) \/ cacheDevice_phone(p) \/ CacheDevice_defer(p)
    \/ delDevice_lookup(p) \/ delDevice_plate(p) \/ delDevice_phone(p)
    \/ DelDevice_Unlock(p)
    \/ GetDevice_Return(p)
    \/ atomicSave_write(p) \/ atomicSave_rename(p) \/ Save_Return(p)
    \/ Load_Lock(p) /\ p = Main
    \/ atomicLoad(p) \/ Load_Return(p)
    \/ NewPersister_Return /\ p = Main

SpecFair ==
    Init /\ [][NextFair]_vars /\ \A p \in CacheThreads \cup {Main} : WF_vars(Step(p))

----
\* The codec of the location report. A codec call is a pure function of its
\* argument: cin holds the argument, cout what the call has produced.

\* the cache and the Persister take no part in a codec call
NoStorage ==
    /\ CacheByPlate = EmptyMap
    /\ CacheByPhone = EmptyMap
    /\ mutex = 0
    /\ updated = FALSE
    /\ mu = FALSE
    /\ lastSaveErr = FALSE
    /\ filePath = Absent
    /\ tmpFile = Absent
    /\ pc = [p \in Procs |-> "off"]
    /\ local = [p \in Procs |-> NoLocal]

\* Go's integer operators on uint32 and uint8. The operand of a left shift
\* is an eight-bit field and the shift at most 22, so no shift and no sum of
\* the encoder reaches 2^32 and none wraps.
RECURSIVE BitAnd(_, _)
BitAnd(a, b) ==
    IF a = 0 \/ b = 0 THEN 0
    ELSE (a % 2) * (b % 2) + 2 * BitAnd(a \div 2, b \div 2)
Shr(x, n) == x \div (2 ^ n)
Shl(x, n) == x * (2 ^ n)
uint8(x) == x % 256

\* the bits of the status word
accBit == 1
locationStatusBit == 2
LatitudeTypeBit == 4
LongitudeTypeBit == 8
operatingStatusBit == 16
gisEncryptionStatusBit == 32
loadStatusBit == 768
fuelSystemStatusBit == 1024
alternatorSystemStatusBit == 2048
doorLockedStatusBit == 4096
frontDoorStatusBit == 8192
midDoorStatusBit == 16384
backDoorStatusBit == 32768
driverDoorStatusBit == 65536
customDoorStatusBit == 131072
gpsLocationStatusBit == 262144
beidouLocatlonStatusBit == 524288
glonassLocationStatusBit == 1048576
galileoLocationStatusBit == 2097152
drivingStatusBit == 4194304

GeoMeta_Decode(status) ==
    [ACCStatus              |-> uint8(BitAnd(status, accBit)),
     LocationStatus         |-> uint8(Shr(BitAnd(status, locationStatusBit), 1)),
     LatitudeType           |-> uint8(Shr(BitAnd(status, LatitudeTypeBit), 2)),
     LongitudeType          |-> uint8(Shr(BitAnd(status, LongitudeTypeBit), 3)),
     OperatingStatus        |-> uint8(Shr(BitAnd(status, operatingStatusBit), 4)),
     GeoEncryptionStatus    |-> uint8(Shr(BitAnd(status, gisEncryptionStatusBit), 5)),
     LoadStatus             |-> uint8(Shr(BitAnd(status, loadStatusBit), 8)),
     FuelSystemStatus       |-> uint8(Shr(BitAnd(status, fuelSystemStatusBit), 10)),
     AlternatorSystemStatus |-> uint8(Shr(BitAnd(status, alternatorSystemStatusBit), 11)),
     DoorLockedStatus       |-> uint8(Shr(BitAnd(status, doorLockedStatusBit), 12)),
     FrontDoorStatus        |-> uint8(Shr(BitAnd(status, frontDoorStatusBit), 13)),
     MidDoorStatus          |-> uint8(Shr(BitAnd(status, midDoorStatusBit), 14)),
     BackDoorStatus         |-> uint8(Shr(BitAnd(status, backDoorStatusBit), 15)),
     DriverDoorStatus       |-> uint8(Shr(BitAnd(status, driverDoorStatusBit), 16)),
     CustomDoorStatus       |-> uint8(Shr(BitAnd(status, customDoorStatusBit), 17)),
     GPSLocationStatus      |-> uint8(Shr(BitAnd(status, gpsLocationStatusBit), 18)),
     BeidouLocationStatus   |-> uint8(Shr(BitAnd(status, beidouLocatlonStatusBit), 19)),
     GLONASSLocationStatus  |-> uint8(Shr(BitAnd(status, glonassLocationStatusBit), 20)),
     GalileoLocationStatus  |-> uint8(Shr(BitAnd(status, galileoLocationStatusBit), 21)),
     DrivingStatus          |-> uint8(Shr(BitAnd(status, drivingStatusBit), 22))]

GeoMeta_Encode(g) ==
    g.ACCStatus
    + Shl(g.LocationStatus, 1)
    + Shl(g.LongitudeType, 2)
    + Shl(g.LatitudeType, 3)
    + Shl(g.OperatingStatus, 4)
    + Shl(g.GeoEncryptionStatus, 5)
    + Shl(g.LoadStatus, 8)
    + Shl(g.FuelSystemStatus, 10)
    + Shl(g.AlternatorSystemStatus, 11)
    + Shl(g.DoorLockedStatus, 12)
    + Shl(g.FrontDoorStatus, 13)
    + Shl(g.MidDoorStatus, 14)
    + Shl(g.BackDoorStatus, 15)
    + Shl(g.DriverDoorStatus, 16)
    + Shl(g.CustomDoorStatus, 17)
    + Shl(g.GPSLocationStatus, 18)
    + Shl(g.BeidouLocationStatus, 19)
    + Shl(g.GLONASSLocationStatus, 20)
    + Shl(g.GalileoLocationStatus, 21)
    + Shl(g.DrivingStatus, 22)

\* status words with the reserved bits 6-7 and 23-31 clear: every value of
\* bits 0-5, and every value of a window of GeoHighBits bits placed anywhere
\* in bits 8-22
StatusWords ==
    {lo + Shl(hi, 8 + s) : lo \in 0..63, hi \in 0..(2 ^ GeoHighBits - 1),
                           s \in 0..(15 - GeoHighBits)}

InitGeoMeta ==
    /\ NoStorage
    /\ cin \in [op : {"GeoMeta"}, status : StatusWords]
    /\ cout = NoCall

GeoMeta_Decode_call ==
    /\ cin.op = "GeoMeta" /\ cout.op = "none"
    /\ cout' = [op |-> "Decode", geo |-> GeoMeta_Decode(cin.status)]
    /\ UNCHANGED <<cin, storageVars>>

GeoMeta_Encode_call ==
    /\ cin.op = "GeoMeta" /\ cout.op = "Decode"
    /\ cout' = [op |-> "Encode", geo |-> cout.geo,
                status |-> GeoMeta_Encode(cout.geo)]
    /\ UNCHANGED <<cin, storageVars>>

NextGeoMeta ==
    \/ GeoMeta_Decode_call
    \/ GeoMeta_Encode_call

SpecGeoMeta == InitGeoMeta /\ [][NextGeoMeta]_vars

----
\* Msg0200, the location report: fixed fields and the attachment table

\* internal/codec/hex: big-endian integers and binary-coded decimal; idx is
\* the number of bytes of pkt already read
WriteDoubleWord(pkt, v) ==
    pkt \o <<(v \div 16777216) % 256, (v \div 65536) % 256,
             (v \div 256) % 256, v % 256>>
WriteWord(pkt, v) == pkt \o <<(v \div 256) % 256, v % 256>>
WriteBCD(pkt, str) ==
    pkt \o [k \in 1..(Len(str) \div 2) |-> str[2 * k - 1] * 16 + str[2 * k]]
ReadDoubleWord(pkt, idx) ==
    pkt[idx + 1] * 16777216 + pkt[idx + 2] * 65536 + pkt[idx + 3] * 256 + pkt[idx + 4]
ReadWord(pkt, idx) == pkt[idx + 1] * 256 + pkt[idx + 2]
ReadBCD(pkt, idx, n) ==
    [k \in 1..(2 * n) |-> IF k % 2 = 1 THEN pkt[idx + (k + 1) \div 2] \div 16
                          ELSE pkt[idx + k \div 2] % 16]

\* byte(len(value))
byte(x) == x % 256

\* a variant of sort_Slice that leaves the keys in the order the map gave them
sort_Slice_asIterated(attachIDs) == attachIDs

\* sort.Slice(attachIDs, func(i, j) { return attachIDs[i] < attachIDs[j] })
RECURSIVE sort_Slice(_)
sort_Slice(attachIDs) ==
    IF attachIDs = <<>> THEN <<>>
    ELSE LET n == Len(attachIDs)
             least == CHOOSE k \in 1..n : \A j \in 1..n : attachIDs[k] <= attachIDs[j]
         IN <<attachIDs[least]>>
              \o sort_Slice(SubSeq(attachIDs, 1, least - 1)
                              \o SubSeq(attachIDs, least + 1, n))

\* a variant of EncodeEntry that writes the length before the tag
EncodeEntry_lengthFirst(pkt, id, value) ==
    pkt \o <<byte(Len(value)), id>> \o value

\* one entry of the attachment table: tag, length, value
EncodeEntry(pkt, id, value) ==
    pkt \o <<id, byte(Len(value))>> \o value

RECURSIVE EncodeAttach(_, _, _)
EncodeAttach(pkt, AttachData, attachIDs) ==
    IF attachIDs = <<>> THEN pkt
    ELSE EncodeAttach(EncodeEntry(pkt, Head(attachIDs), AttachData[Head(attachIDs)]),
                      AttachData, Tail(attachIDs))

\* Msg0200.Encode up to the call of writeHeader, i.e. the message body;
\* keys is the order in which ranging over m.AttachData yields its keys
Msg0200_Encode(m, keys) ==
    LET pkt1 == WriteDoubleWord(<<>>, m.AlarmSign)
        pkt2 == WriteDoubleWord(pkt1, m.StatusSign)
        pkt3 == WriteDoubleWord(pkt2, m.Latitude)
        pkt4 == WriteDoubleWord(pkt3, m.Longitude)
        pkt5 == WriteWord(pkt4, m.Altitude)
        pkt6 == WriteWord(pkt5, m.Speed)
        pkt7 == WriteWord(pkt6, m.Direction)
        pkt8 == WriteBCD(pkt7, m.Time)
    IN EncodeAttach(pkt8, m.AttachData, sort_Slice(keys))

\* the loop over the attachment area. pkt is packet.Body and array the
\* backing array of that slice up to its capacity: pkt[idx] is checked
\* against len(pkt), pkt[idx : idx+length] against cap(pkt).
RECURSIVE DecodeAttach(_, _, _, _)
DecodeAttach(pkt, array, idx, AttachData) ==
    IF ~(idx < Len(pkt)) THEN [err |-> "nil", AttachData |-> AttachData]
    ELSE IF ~(idx + 1 < Len(pkt))
         THEN [err |-> "panic", AttachData |-> AttachData]
    ELSE LET attachID == pkt[idx + 1]
             length == pkt[idx + 2]
             from == idx + 2
         IN IF from + length > Len(array)
            THEN [err |-> "panic", AttachData |-> AttachData]
            ELSE DecodeAttach(pkt, array, from + length,
                              MapSet(AttachData, attachID,
                                     SubSeq(array, from + 1, from + length)))

Msg0200_Decode(pkt, array) ==
    LET attach == DecodeAttach(pkt, array, 28, EmptyMap)
    IN [err        |-> attach.err,
        AlarmSign  |-> ReadDoubleWord(pkt, 0),
        StatusSign |-> ReadDoubleWord(pkt, 4),
        Latitude   |-> ReadDoubleWord(pkt, 8),
        Longitude  |-> ReadDoubleWord(pkt, 12),
        Altitude   |-> ReadWord(pkt, 16),
        Speed      |-> ReadWord(pkt, 18),
        Direction  |-> ReadWord(pkt, 20),
        Time       |-> ReadBCD(pkt, 22, 6),
        AttachData |-> attach.AttachData]

\* reports: two settings of the fixed fields, every attachment table over
\* AttachTags with payloads of the lengths in PayloadLens
FixedFields ==
    {[AlarmSign |-> 0, StatusSign |-> 3, Latitude |-> 31230000,
      Longitude |-> 121470000, Altitude |-> 10, Speed |-> 300, Direction |-> 90,
      Time |-> <<2, 4, 0, 1, 0, 1, 1, 2, 0, 0, 0, 0>>],
     [AlarmSign |-> 16909060, StatusSign |-> 4194367, Latitude |-> 90000000,
      Longitude |-> 180000000, Altitude |-> 65535, Speed |-> 65535, Direction |-> 359,
      Time |-> <<9, 9, 1, 2, 3, 1, 2, 3, 5, 9, 5, 9>>]}
AttachTags == {4, 48, 84}
PayloadLens == {0, 1, 2, MaxPayloadLen - 1, MaxPayloadLen}
Payloads == {[i \in 1..n |-> b] : n \in PayloadLens, b \in {40, 62}}
AttachTables == UNION {[tags -> Payloads] : tags \in SUBSET AttachTags}
\* the orders in which ranging over a map may yield its keys
KeyOrders(AttachData) ==
    {keys \in [1..Cardinality(DOMAIN AttachData) -> DOMAIN AttachData] :
        \A i, j \in DOMAIN keys : i # j => keys[i] # keys[j]}
\* the bytes of the backing array between the length of a body and its capacity
Spares == {<<>>, <<170, 187>>}
\* attachment areas of up to MaxTlvLen bytes, well formed or not
RECURSIVE SeqsUpTo(_, _)
SeqsUpTo(S, n) ==
    IF n = 0 THEN {<<>>}
    ELSE LET shorter == SeqsUpTo(S, n - 1)
         IN shorter \cup {Append(s, b) : s \in {x \in shorter : Len(x) = n - 1}, b \in S}
AttachAreas == SeqsUpTo({0, 1, 2, 48}, MaxTlvLen)

InitMsg0200 ==
    /\ NoStorage
    /\ cin \in UNION {{[op |-> "Encode", m |-> f @@ [AttachData |-> a],
                         keys |-> k, spare |-> <<>>] : k \in KeyOrders(a)} :
                            f \in FixedFields, a \in AttachTables}
               \cup
               {[op |-> "Decode",
                 pkt |-> Msg0200_Encode(f @@ [AttachData |-> EmptyMap], <<>>) \o area,
                 spare |-> spare] :
                    f \in FixedFields, area \in AttachAreas, spare \in Spares}
    /\ cout = NoCall

Msg0200_Encode_call ==
    /\ cin.op = "Encode" /\ cout.op = "none"
    /\ cout' = [op |-> "Encode", pkt |-> Msg0200_Encode(cin.m, cin.keys)]
    /\ UNCHANGED <<cin, storageVars>>

\* Decode of a body that came off the wire
Msg0200_Decode_call ==
    /\ cin.op = "Decode" /\ cout.op = "none"
    /\ cout' = [op |-> "Decode", pkt |-> cin.pkt,
                m |-> Msg0200_Decode(cin.pkt, cin.pkt \o cin.spare)]
    /\ UNCHANGED <<cin, storageVars>>

\* Decode of the body Encode has produced
Msg0200_Decode_encoded ==
    /\ cin.op = "Encode" /\ cout.op = "Encode"
    /\ cout' = [op |-> "Decode", pkt |-> cout.pkt,
                m |-> Msg0200_Decode(cout.pkt, cout.pkt \o cin.spare)]
    /\ UNCHANGED <<cin, storageVars>>

NextMsg0200 ==
    \/ Msg0200_Encode_call
    \/ Msg0200_Decode_call
    \/ Msg0200_Decode_encoded

SpecMsg0200 == InitMsg0200 /\ [][NextMsg0200]_vars

\* an attachment area that is a sequence of complete (tag, length, value) entries
RECURSIVE WellFormedTLV(_)
WellFormedTLV(area) ==
    \/ area = <<>>
    \/ /\ Len(area) >= 2
       /\ area[2] <= Len(area) - 2
       /\ WellFormedTLV(SubSeq(area, 3 + area[2], Len(area)))

\* Decode returned nil and m holds the fields and the attachment table of r
SameReport(m, r) ==
    /\ m.err = "nil"
    /\ m.AlarmSign = r.AlarmSign /\ m.StatusSign = r.StatusSign
    /\ m.Latitude = r.Latitude /\ m.Longitude = r.Longitude
    /\ m.Altitude = r.Altitude /\ m.Speed = r.Speed
    /\ m.Direction = r.Direction /\ m.Time = r.Time
    /\ m.AttachData = r.AttachData

----
\* DeviceGeo: the decoded form of a location report and its sub-records

int8(x) == IF x % 256 >= 128 THEN (x % 256) - 256 ELSE x % 256

\* int8(-90.0 + (float64(b)/255.0)*60.0): the conversion truncates toward
\* zero, and the value is never positive
byteToDBM(b) == -((90 * 255 - 60 * uint8(b)) \div 255)

\* fmt.Sprintf("%02X%02X%02X%02X%02X%02X", ...): two hex digits per byte,
\* each digit given by its value
Sprintf02X(bytes) ==
    [k \in 1..(2 * Len(bytes)) |-> IF k % 2 = 1 THEN bytes[(k + 1) \div 2] \div 16
                                   ELSE bytes[k \div 2] % 16]

Battery_Decode(data) ==
    IF Len(data) < 2 THEN [err |-> "empty battery data", Charging |-> FALSE, BatteryLevel |-> 0]
    ELSE [err |-> "nil", Charging |-> (data[1] = 1), BatteryLevel |-> int8(data[2])]

\* a variant of WifiList_Decode that decodes the complete records it finds
\* when the length does not match the count
WifiList_Decode_lenient(wifis, data) ==
    [err |-> "nil",
     wifis |-> [i \in 1..((Len(data) - 1) \div 7) |->
                   [MAC |-> Sprintf02X(SubSeq(data, 7 * i - 5, 7 * i)),
                    RSSI |-> byteToDBM(data[7 * i - 5])]]]

\* wifis is the list the receiver points at when Decode is called
WifiList_Decode(wifis, data) ==
    IF Len(data) < 1 THEN [err |-> "empty wifi data", wifis |-> wifis]
    ELSE LET apCount == data[1]
         IN IF Len(data) # 1 + apCount * 7
            THEN [err |-> "invalid wifi data length", wifis |-> wifis]
            ELSE [err |-> "nil",
                  wifis |-> [i \in 1..apCount |->
                      LET offset == 1 + (i - 1) * 7
                          apData == SubSeq(data, offset + 1, offset + 7)
                      IN [MAC |-> Sprintf02X(SubSeq(apData, 1, 6)),
                          RSSI |-> byteToDBM(apData[1])]]]

LBSList_Decode(lbss, data) ==
    IF Len(data) < 1 THEN [err |-> "empty wifi data", lbss |-> lbss]
    ELSE LET cellCount == data[1]
         IN IF Len(data) # 1 + cellCount * 10
            THEN [err |-> "invalid lbs data length", lbss |-> lbss]
            ELSE [err |-> "nil",
                  lbss |-> [i \in 1..cellCount |->
                      LET offset == 1 + (i - 1) * 10
                          lbsData == SubSeq(data, offset + 1, offset + 10)
                      IN [MCC |-> Shl(lbsData[1], 8) + lbsData[2],
                          MNC |-> uint8(lbsData[3]),
                          LAC |-> Shl(lbsData[4], 8) + lbsData[5],
                          CellID |-> ReadDoubleWord(lbsData, 5),
                          RSSI |-> int8(lbsData[10])]]]

\* a float64 quotient, kept as numerator and denominator
Quotient(n, d) == [n |-> n, d |-> d]

\* hex.ParseTime of the BCD digits YYMMDDhhmmss
ParseTime(str) ==
    [Year |-> 2000 + 10 * str[1] + str[2], Month |-> 10 * str[3] + str[4],
     Day |-> 10 * str[5] + str[6], Hour |-> 10 * str[7] + str[8],
     Minute |-> 10 * str[9] + str[10], Second |-> 10 * str[11] + str[12]]

\* m.AttachData[id] exists and is at least min bytes long
Exists(m, id, min) == id \in DOMAIN m.AttachData /\ Len(m.AttachData[id]) >= min

\* DeviceGeo.Decode into a zero DeviceGeo; a slice or pointer field that is
\* not assigned stays nil
DeviceGeo_Decode(phone, m) ==
    [Phone     |-> phone,
     Geo       |-> GeoMeta_Decode(m.StatusSign),
     Location  |-> [Latitude  |-> Quotient(m.Latitude, LocationAccuracy),
                    Longitude |-> Quotient(m.Longitude, LocationAccuracy),
                    Altitude  |-> m.Altitude],
     Drive     |-> [Speed |-> Quotient(m.Speed, SpeedAccuracy),
                    Direction |-> m.Direction],
     Time      |-> ParseTime(m.Time),
     WifiInfos |-> IF Exists(m, 84, 2)
                   THEN [nil |-> FALSE,
                         list |-> WifiList_Decode(<<>>, m.AttachData[84]).wifis]
                   ELSE [nil |-> TRUE, list |-> <<>>],
     LBSInfos  |-> IF Exists(m, 93, 2)
                   THEN [nil |-> FALSE,
                         list |-> LBSList_Decode(<<>>, m.AttachData[93]).lbss]
                   ELSE [nil |-> TRUE, list |-> <<>>],
     Battery   |-> IF Exists(m, 4, 2)
                   THEN [nil |-> FALSE,
                         Charging |-> Battery_Decode(m.AttachData[4]).Charging,
                         BatteryLevel |-> Battery_Decode(m.AttachData[4]).BatteryLevel]
                   ELSE [nil |-> TRUE, Charging |-> FALSE, BatteryLevel |-> 0],
     CsqLevel  |-> IF Exists(m, 48, 1) THEN int8(m.AttachData[48][1]) ELSE 0,
     Sattelite |-> IF Exists(m, 49, 1) THEN int8(m.AttachData[49][1]) ELSE 0,
     err       |-> "nil"]

\* attachment payloads: a count byte n followed by k records, k and n chosen
\* independently so that the length matches the count or not
WifiRecords ==
    <<<<0, 17, 34, 51, 68, 85, 128>>, <<170, 187, 204, 221, 238, 255, 64>>>>
LBSRecords ==
    <<<<1, 204, 0, 18, 52, 0, 1, 226, 64, 200>>, <<1, 204, 1, 0, 7, 0, 0, 0, 9, 50>>>>
RepeatRecords(recs, k, f) ==
    LET size == Len(recs[1])
    IN [j \in 1..(size * k) |->
           recs[(((j - 1) \div size + f) % Len(recs)) + 1][((j - 1) % size) + 1]]
WifiPayloads ==
    {<<n>> \o RepeatRecords(WifiRecords, k, f) :
        n \in 0..(MaxRecords + 1), k \in 0..MaxRecords, f \in 0..1}
LBSPayloads ==
    {<<n>> \o RepeatRecords(LBSRecords, k, 0) : n \in 0..MaxRecords, k \in 0..MaxRecords}
\* the attachment is absent, or present with one of the payloads
Attachment(id, payloads) == {<<>>} \cup {id :> data : data \in payloads}
GeoAttachTables ==
    {w @@ l @@ b @@ c @@ s :
        w \in Attachment(84, WifiPayloads), l \in Attachment(93, LBSPayloads),
        b \in Attachment(4, {<<1, 80>>, <<0, 200>>, <<1>>}),
        c \in Attachment(48, {<<20>>, <<200>>}), s \in Attachment(49, {<<7>>})}

InitDeviceGeo ==
    /\ NoStorage
    /\ cin \in [op : {"WifiList"}, data : WifiPayloads]
               \cup {[op |-> "DeviceGeo", phone |-> 1, m |-> f @@ [AttachData |-> a]] :
                        f \in FixedFields, a \in GeoAttachTables}
    /\ cout = NoCall

WifiList_Decode_call ==
    /\ cin.op = "WifiList" /\ cout.op = "none"
    /\ cout' = [op |-> "Decode"] @@ WifiList_Decode(<<>>, cin.data)
    /\ UNCHANGED <<cin, storageVars>>

DeviceGeo_Decode_call ==
    /\ cin.op = "DeviceGeo" /\ cout.op = "none"
    /\ cout' = [op |-> "Decode", dg |-> DeviceGeo_Decode(cin.phone, cin.m)]
    /\ UNCHANGED <<cin, storageVars>>

NextDeviceGeo ==
    \/ WifiList_Decode_call
    \/ DeviceGeo_Decode_call

SpecDeviceGeo == InitDeviceGeo /\ [][NextDeviceGeo]_vars

----
\* the positions at which a goroutine is inside the critical section of
\* CacheDevice, of a delete, or of a get
InCacheDevice == {"cacheDevice_plate", "cacheDevice_phone", "CacheDevice_defer"}
InDelDevice == {"delDevice_lookup", "delDevice_plate", "delDevice_phone",
                "delDevice_skip", "delDevice_done"}
InGetDevice == {"GetDevice"}
\* the positions at which a goroutine is inside saveWithRetry
InSave == {"atomicSave_write", "atomicSave_rename"}

\* C1: between calls (no goroutine holds the cache mutex) the two indices
\* describe the same devices: a device stored in the phone index under k has
\* phone k and is the device stored in the plate index under its plate, and
\* a device stored in the plate index under k has plate k and is the device
\* stored in the phone index under its phone.
C1_IndicesAgree ==
    mutex = 0 =>
        /\ \A k \in DOMAIN CacheByPhone :
              LET d == CacheByPhone[k]
              IN /\ d.Phone = k
                 /\ d.Plate \in DOMAIN CacheByPlate
                 /\ CacheByPlate[d.Plate] = d
        /\ \A k \in DOMAIN CacheByPlate :
              LET d == CacheByPlate[k]
              IN /\ d.Plate = k
                 /\ d.Phone \in DOMAIN CacheByPhone
                 /\ CacheByPhone[d.Phone] = d

\* C2: when cacheDevice(d) has returned (the caller still holds the mutex,
\* only its deferred calls are left) GetDeviceByPhone(d.Phone) and
\* GetDeviceByPlate(d.Plate) both yield d without error; when delDevice has
\* removed the device d found under a phone, GetDeviceByPhone(d.Phone) and
\* GetDeviceByPlate(d.Plate) both yield the not-found error.
C2_GetAfterPutAndDelete ==
    \A t \in Threads :
        /\ pc[t] = "CacheDevice_defer" =>
              /\ GetDeviceByPhone(local[t].d.Phone) = [d |-> local[t].d, err |-> FALSE]
              /\ GetDeviceByPlate(local[t].d.Plate) = [d |-> local[t].d, err |-> FALSE]
        /\ (pc[t] = "delDevice_done" /\ ~local[t].byPlate) =>
              /\ local[t].d.Phone = local[t].key
              /\ GetDeviceByPhone(local[t].d.Phone) = [d |-> NilDevice, err |-> TRUE]
              /\ GetDeviceByPlate(local[t].d.Plate) = [d |-> NilDevice, err |-> TRUE]

\* a delete by phone has removed its device while another device stays cached
C2_Witness ==
    \E t \in Threads :
        /\ pc[t] = "delDevice_done" /\ ~local[t].byPlate
        /\ CacheByPhone # EmptyMap

\* C3: while a goroutine is inside saveWithRetry (through Save or through an
\* autosave tick) no other goroutine is inside the critical section of
\* CacheDevice, of a delete or of a get.
C3_SaveExcludesCache ==
    \A s \in Threads \cup {Auto} :
        pc[s] \in InSave =>
            \A t \in Threads \ {s} :
                pc[t] \notin InCacheDevice \cup InDelDevice \cup InGetDevice

\* C4: when Save's saveWithRetry has returned nil (the caller still holds the
\* cache mutex, so no put or delete has run since) IsUpdated() is false.
C4_CleanAfterSave ==
    \A t \in Threads :
        (pc[t] = "saveWithRetry_return" /\ ~local[t].err) => ~IsUpdated

\* C5: IsUpdated() is true when CacheDevice returns and when a delete that
\* removed a device returns (the step is the call's return, the process
\* keeps running).
C5_DirtyAfterMutation ==
    [][\A t \in Threads :
          (pc[t] \in {"CacheDevice_defer", "delDevice_done"}
             /\ pc'[t] = "idle" /\ pc'[Main] = "done")
              => IsUpdated']_vars

\* C6: ListDevice reads the phone index only while no other goroutine is
\* inside CacheDevice or a delete.
C6_NoUnlockedRead ==
    \A t \in Threads :
        pc[t] = "ListDevice" =>
            \A u \in Threads \ {t} : pc[u] \notin InCacheDevice \cup InDelDevice

\* C7: the final snapshot path never holds a partially written document.
C7_FinalPathComplete == filePath.kind # "partial"

\* C8: a retry loop (saveWithRetry, loadWithRetry) makes at most 3 attempts;
\* when it returns nil its last attempt succeeded and every earlier one
\* failed; it returns an error exactly when 3 attempts failed.
C8_RetryPolicy ==
    \A p \in Procs :
        /\ local[p].tries <= 3
        /\ pc[p] \in {"saveWithRetry_return", "loadWithRetry_return"} =>
              /\ local[p].tries >= 1
              /\ ~local[p].err => local[p].fails = local[p].tries - 1
              /\ local[p].err <=> local[p].fails = 3

\* a save has failed three times and is returning its error
C8_Witness ==
    \E p \in Threads \cup {Auto} :
        /\ pc[p] = "saveWithRetry_return"
        /\ local[p].err /\ local[p].fails = 3

\* C9: when the save of an autosave tick has exhausted its retries, the loop
\* stores the error in lastSaveErr, releases p.mu and waits for the next tick,
\* and with the error stored the dirty flag is true, so that the next tick's
\* IsUpdated test leads to another save.
C9_AutoSaveSurvivesFailure ==
    /\ [][(pc[Auto] = "saveWithRetry_return" /\ local[Auto].err
             /\ pc'[Auto] # pc[Auto] /\ pc'[Main] = "done")
            => (lastSaveErr' /\ IsUpdated' /\ ~mu' /\ pc'[Auto] = "ticker")]_vars
    /\ [][(pc[Auto] = "IsUpdated" /\ lastSaveErr
             /\ pc'[Auto] # pc[Auto] /\ pc'[Main] = "done")
            => pc'[Auto] = "atomicSave_write"]_vars
    /\ [](lastSaveErr => pc[Auto] \in {"ticker", "IsUpdated"} \cup InSave
                                        \cup {"saveWithRetry_return"})
    /\ []((lastSaveErr /\ pc[Auto] = "ticker") => (IsUpdated /\ ENABLED autoSave_tick))

\* after a failed autosave the next tick has started another save
C9_Witness ==
    /\ lastSaveErr
    /\ pc[Auto] = "atomicSave_write"
    /\ local[Auto].tries = 0

\* C10: a delete whose key is missing from the index it looks in takes the
\* skip branch and leaves both index maps as they were until it returns.
C10_DeleteMissIsNoOp ==
    [][\A t \in Threads :
          LET m == IF local[t].byPlate THEN CacheByPlate ELSE CacheByPhone
              miss == \/ pc[t] = "delDevice_skip"
                      \/ pc[t] = "delDevice_lookup" /\ local[t].key \notin DOMAIN m
          IN miss => /\ UNCHANGED cacheVars
                     /\ pc'[t] \in {pc[t], "delDevice_skip", "idle"}]_vars

\* a delete by plate has missed while a device is cached
C10_Witness ==
    \E t \in Threads :
        /\ pc[t] = "delDevice_skip" /\ local[t].byPlate
        /\ CacheByPhone # EmptyMap

\* C11: a load that finds no snapshot file succeeds at its first attempt,
\* without an error or a retry, leaves both index maps and the dirty flag as
\* they were, and the call that made it releases the lock when it returns.
C11_LoadWithoutFile ==
    [][\A p \in Threads \cup {Main} :
          /\ (pc[p] = "atomicLoad" /\ filePath = Absent
                  /\ pc'[p] # pc[p] /\ pc'[Main] # "NewPersister")
                => /\ pc'[p] = "loadWithRetry_return"
                   /\ local'[p].tries = 1
                   /\ local'[p].fails = 0
                   /\ ~local'[p].err
                   /\ UNCHANGED <<cacheVars, updated>>
          /\ (pc[p] = "loadWithRetry_return" /\ pc'[p] # pc[p])
                => mutex' = 0]_vars

\* a load has returned from its only attempt with no file on disk, on a
\* registry that holds a device and is dirty
C11_Witness ==
    \E p \in Threads :
        /\ pc[p] = "loadWithRetry_return"
        /\ filePath = Absent
        /\ local[p].tries = 1
        /\ mutex = p
        /\ CacheByPhone # EmptyMap
        /\ updated

\* C12: decoding a status word whose reserved bits are clear and encoding
\* the decoded GeoMeta gives the same word back, bit for bit.
C12_GeoMetaRoundTrip ==
    (cin.op = "GeoMeta" /\ cout.op = "Encode") => cout.status = cin.status

\* C13: Msg0200.Decode of a body whose attachment area is malformed (a tag
\* without a length byte, or a declared length beyond the remaining bytes)
\* returns an error: it neither reads out of range nor returns success.
C13_MalformedAttachmentRejected ==
    (cin.op = "Decode" /\ cout.op = "Decode"
        /\ ~WellFormedTLV(SubSeq(cin.pkt, 29, Len(cin.pkt))))
      => cout.m.err = "MalformedAttachment"

\* C14 as stated: decoding the body that Encode produced for a report gives
\* back its fixed fields and an equal attachment table, whatever the length
\* of the payloads in the table.
C14_RoundTripAnyLength ==
    (cin.op = "Encode" /\ cout.op = "Decode") => SameReport(cout.m, cin.m)

\* C14, amended: decoding the body that Encode produced for a report gives
\* back its fixed fields and an equal attachment table, provided every
\* payload is at most 255 bytes long (the length travels in one byte).
C14_RoundTrip ==
    (cin.op = "Encode" /\ cout.op = "Decode"
        /\ \A id \in DOMAIN cin.m.AttachData : Len(cin.m.AttachData[id]) <= 255)
      => SameReport(cout.m, cin.m)

\* a report with three attachments, one of them 255 bytes long, has been
\* encoded from a descending key order and decoded again
C14_Witness ==
    /\ cin.op = "Encode" /\ cout.op = "Decode"
    /\ DOMAIN cin.m.AttachData = AttachTags
    /\ cin.keys = <<84, 48, 4>>
    /\ \A id \in AttachTags : Len(cin.m.AttachData[id]) <= 255
    /\ Len(cin.m.AttachData[48]) = 255
    /\ cin.m.AlarmSign # 0

\* C15: after the 28 bytes of the fixed fields Encode emits one entry per
\* tag of the attachment table, in strictly ascending tag order, each as the
\* tag, one length byte and the payload, whatever order the map yielded its
\* keys in; so the bytes are the same for every such order.
C15_AscendingTags ==
    (cin.op = "Encode" /\ cout.op = "Encode") =>
        LET a == cin.m.AttachData
            n == Cardinality(DOMAIN a)
            asc == CHOOSE ids \in KeyOrders(a) :
                       \A i \in 1..(n - 1) : ids[i] < ids[i + 1]
            RECURSIVE Offset(_)
            Offset(i) == IF i = 1 THEN 28
                         ELSE Offset(i - 1) + 2 + Len(a[asc[i - 1]])
        IN /\ Len(cout.pkt) = Offset(n + 1)
           /\ \A i \in 1..n :
                 /\ cout.pkt[Offset(i) + 1] = asc[i]
                 /\ cout.pkt[Offset(i) + 2] = Len(a[asc[i]]) % 256
                 /\ SubSeq(cout.pkt, Offset(i) + 3, Offset(i + 1)) = a[asc[i]]
           /\ \A keys \in KeyOrders(a) : Msg0200_Encode(cin.m, keys) = cout.pkt

\* a table of three tags that the map yielded out of order has been encoded
C15_Witness ==
    /\ cin.op = "Encode" /\ cout.op = "Encode"
    /\ cin.keys = <<84, 4, 48>>
    /\ \A id \in AttachTags : Len(cin.m.AttachData[id]) \in 1..2

\* C16: WifiList.Decode of a payload of exactly 1+7N bytes with count byte N
\* yields N records in wire order; record i has the hex digits of bytes 0-5
\* of the i-th 7-byte record as MAC, and as RSSI the linear map applied to
\* byte 6 of that record.
C16_WifiRecordFields ==
    (cin.op = "WifiList" /\ cout.op = "Decode"
        /\ Len(cin.data) = 1 + 7 * cin.data[1])
      => /\ cout.err = "nil"
         /\ Len(cout.wifis) = cin.data[1]
         /\ \A i \in 1..cin.data[1] :
               LET rec == SubSeq(cin.data, 7 * i - 5, 7 * i + 1)
               IN /\ cout.wifis[i].MAC = Sprintf02X(SubSeq(rec, 1, 6))
                  /\ cout.wifis[i].RSSI = byteToDBM(rec[7])

\* C17: when the WiFi (0x54) or the cell-tower (0x5D) attachment has a
\* length that does not match its count byte, DeviceGeo.Decode leaves that
\* list without records and decodes every other field exactly as it does
\* for the same report without that attachment.
C17_MismatchAbortsOnlySubDecode ==
    (cin.op = "DeviceGeo" /\ cout.op = "Decode") =>
        LET a == cin.m.AttachData
            Without(id) == [cin.m EXCEPT !.AttachData = [x \in (DOMAIN a) \ {id} |-> a[x]]]
            Mismatch(id, size) == /\ id \in DOMAIN a
                                  /\ Len(a[id]) # 1 + size * a[id][1]
            NoList == [nil |-> TRUE, list |-> <<>>]
        IN /\ Mismatch(84, 7) =>
                /\ Len(cout.dg.WifiInfos.list) = 0
                /\ [cout.dg EXCEPT !.WifiInfos = NoList]
                     = [DeviceGeo_Decode(cin.phone, Without(84)) EXCEPT !.WifiInfos = NoList]
           /\ Mismatch(93, 10) =>
                /\ Len(cout.dg.LBSInfos.list) = 0
                /\ [cout.dg EXCEPT !.LBSInfos = NoList]
                     = [DeviceGeo_Decode(cin.phone, Without(93)) EXCEPT !.LBSInfos = NoList]

\* a report whose WiFi attachment announces two access points and carries
\* one has been decoded: the cell towers, the battery, the signal strength
\* and the satellite count are there
C17_Witness ==
    /\ cin.op = "DeviceGeo" /\ cout.op = "Decode"
    /\ DOMAIN cin.m.AttachData = {84, 93, 4, 48, 49}
    /\ cin.m.AttachData[84][1] = 2 /\ Len(cin.m.AttachData[84]) = 8
    /\ Len(cout.dg.LBSInfos.list) = 2
    /\ ~cout.dg.Battery.nil /\ cout.dg.Battery.BatteryLevel = 80
    /\ cout.dg.CsqLevel = 20 /\ cout.dg.Sattelite = 7

\* C18: the snapshot a save (Save or an autosave tick) marshals holds the
\* two index maps as they stood together between two cache operations: no
\* put in progress is in the plate index and not yet in the phone index,
\* and no delete in progress is gone from the plate index and still in the
\* phone index.
C18_SnapshotAtOneInstant ==
    [][\A p \in Threads \cup {Auto} :
          (pc[p] = "atomicSave_write" /\ pc'[p] = "atomicSave_rename"
              /\ tmpFile' = MarshalIndent)
            => \A t \in Threads :
                 LET d == local[t].d
                 IN /\ ~(/\ pc[t] = "cacheDevice_phone"
                         /\ GetDeviceByPhone(d.Phone) # [d |-> d, err |-> FALSE])
                    /\ ~(/\ pc[t] = "delDevice_phone"
                         /\ d.Phone \in DOMAIN CacheByPhone)]_vars

\* C19: once the Persister runs and the cache operations have come to rest,
\* the snapshot file comes to hold the registry as the puts and deletes left
\* it, and stays so (no file stands for an empty registry).
C19_EventuallyPersisted ==
    <>[](Running /\ \A t \in Threads : pc[t] = "idle")
      => <>[](\/ filePath = MarshalIndent
              \/ filePath = Absent /\ CacheByPhone = EmptyMap /\ CacheByPlate = EmptyMap)

\* C20: a Save or Load makes at most 3 attempts and unlocks when it
\* returns, with or without an error; the lock is only ever taken by a
\* goroutine that is outside every call, and whoever holds it is inside the
\* call that took it; so the lock, once held, is released again, and a
\* call waiting for it can go on.
C20_LockAlwaysReleased ==
    /\ [](\A p \in Procs : local[p].tries <= maxRetryAttempts)
    /\ [][\A p \in Threads \cup {Main} :
            (pc[p] \in {"saveWithRetry_return", "loadWithRetry_return"}
                /\ pc'[p] # pc[p]) => mutex' = 0]_vars
    /\ [][(mutex' # mutex /\ mutex' # 0)
            => (mutex = 0 /\ pc[mutex'] \in {"idle", "NewPersister"})]_vars
    /\ [](mutex # 0 => /\ pc[mutex] \in InCacheDevice \cup InDelDevice \cup InGetDevice
                                        \cup InSave \cup {"saveWithRetry_return",
                                                "atomicLoad", "loadWithRetry_return"}
                       /\ ENABLED Step(mutex))
    /\ (mutex # 0) ~> (mutex = 0)

\* a Load has used up its attempts on an unreadable snapshot and still
\* holds the lock it is about to release, while the autosave is in the
\* middle of a save and the other caller is outside every call
C20_Witness ==
    \E t \in Threads :
        /\ pc[t] = "loadWithRetry_return"
        /\ local[t].err /\ local[t].fails = maxRetryAttempts
        /\ mutex = t
        /\ pc[Auto] \in InSave
        /\ \E u \in Threads \ {t} : pc[u] = "idle" /\ ENABLED Load_Return(t)

\* C21: the autosave loop runs exactly when NewPersister has returned; it is
\* started by the step that ends the initial load, after at least one read
\* attempt, whether the load succeeded or used up its attempts with an
\* error; until then nothing writes the snapshot path or its temporary file.
C21_LoadBeforeAutoSave ==
    /\ [](pc[Auto] # "off" <=> pc[Main] = "done")
    /\ [](pc[Main] = "loadWithRetry_return"
            => /\ local[Main].tries >= 1
               /\ local[Main].err => local[Main].fails = maxRetryAttempts)
    /\ [][(pc[Auto] = "off" /\ pc'[Auto] # "off")
            => /\ pc[Main] = "loadWithRetry_return"
               /\ pc'[Auto] = "ticker" /\ ~mu']_vars
    /\ [][(pc[Main] = "loadWithRetry_return" /\ pc'[Main] = "done")
            => pc'[Auto] = "ticker"]_vars
    /\ [][pc[Main] # "done" => UNCHANGED diskVars]_vars

\* after a restart the initial load has failed three times on the snapshot
\* an earlier run left, and NewPersister is about to log the error and
\* start the autosave loop
C21_Witness ==
    /\ pc[Main] = "loadWithRetry_return"
    /\ local[Main].err /\ local[Main].fails = maxRetryAttempts
    /\ filePath.kind = "full"
    /\ pc[Auto] = "off"
    /\ ENABLED NewPersister_Return

\* C22: while a delete removes the device d it has found, every other
\* device that a lookup by its phone yields is still yielded by that lookup
\* after the step, and every other device that a lookup by its plate
\* yields is still yielded by that lookup after the step, also when that
\* device has the plate of d.
C22_DeleteRemovesOnlyTarget ==
    [][\A t \in Threads :
          pc[t] \in {"delDevice_plate", "delDevice_phone"}
            => \A e \in Device \ {local[t].d} :
                  LET found == [d |-> e, err |-> FALSE]
                  IN /\ GetDeviceByPhone(e.Phone) = found
                          => GetDeviceByPhone(e.Phone)' = found
                     /\ GetDeviceByPlate(e.Plate) = found
                          => GetDeviceByPlate(e.Plate)' = found]_vars

====
